---- MODULE Spec2Model ----
(***************************************************************************)
(* Model of mtchuikov/file-writer: a buffered, size-rotated file writer.   *)
(*                                                                         *)
(* The state is the FileWriter struct (file_writer.go), the bufio.Writer   *)
(* and the writeCounter it owns, the file handles it has opened and the    *)
(* filesystem behind openFileFn / renameFileFn (utils.go).  Every public   *)
(* operation (Write, Open, Close) is one action, since each runs under     *)
(* fw.mu from its first to its last statement.                             *)
(*                                                                         *)
(* Byte strings are kept as sequences of closed intervals <<lo, hi>> of    *)
(* byte numbers: every byte handed to Write gets the next number, so a     *)
(* lost, duplicated or reordered byte changes the value.  This keeps the   *)
(* real bufio buffer size (4096) affordable.                               *)
(*                                                                         *)
(* setBufWriter patches bufio.Writer.wr through a fixed offset; the model  *)
(* is of the builds where that offset is the field's (amd64, and 32-bit    *)
(* targets), where the store is an assignment to wr.                       *)
(***************************************************************************)
EXTENDS Integers, Sequences, FiniteSets, TLC

\* ------------------------------------------------------------------ bounds

\* Public operations per behaviour.
MaxOps == 3
\* Injected I/O failures per behaviour.
MaxFaults == 1
\* The latest clock reading, in ticks since construction.
MaxTime == 1
\* Clock ticks per second: time.RFC3339 formats to whole seconds.
TicksPerSecond == 2
\* Goroutines calling the writer concurrently.
MaxGoroutines == 2

\* ------------------------------------------------------- program constants

\* bufio.NewWriter's buffer size (bufio's defaultBufSize).
BufSize == 4096
\* Go's uint wraps at 2^64 (2^32 on 32-bit targets); TLC's integers are
\* 32-bit, so the wrap is kept at 2^30.
UintMod == 1073741824

\* Configurations the writer is built with (WithFileWriterMaxSize,
\* WithFileWriterMaxBatchSize, WithFileWriterFlushInterval) and the inputs
\* of the operations.
Config(maxSize, maxBatchSize, flushTicker, fileSize) ==
    [maxSize |-> maxSize, maxBatchSize |-> maxBatchSize,
     flushTicker |-> flushTicker, fileSize |-> fileSize]

\* The writers built: a rotation threshold of 20 bytes (the documented
\* scenario) or above the buffer size, a batch of 1, 2 or the default 32, on
\* an empty file; one on a file that already holds bytes; one with
\* WithFileWriterFlushInterval(0), whose flushTicker is nil.
Configs ==
    { Config(m, b, "set", 0) : m \in {20, 6000}, b \in {1, 2, 32} }
    \cup { Config(20, 32, "set", 3), Config(6000, 1, "set", 3),
           Config(20, 32, "nil", 0) }

PayloadSizes == {14, 4090, 5000}
Paths == {"test.log", "other.log"}
NoPostfix == -1

\* ------------------------------------------------------------ byte strings

\* F applied to the value of v, which is computed once.
With(v, F(_)) == CHOOSE y \in {F(x) : x \in {v}} : TRUE

RECURSIVE CLen(_)
CLen(c) == IF c = <<>> THEN 0 ELSE (c[1][2] - c[1][1] + 1) + CLen(Tail(c))

\* Concatenation; adjacent intervals that continue each other are merged, so
\* equal byte strings have equal representations.
CCat(a0, b0) ==
    With(<<a0, b0>>, LAMBDA ab :
        LET a == ab[1]
            b == ab[2]
        IN IF a = <<>> THEN b
           ELSE IF b = <<>> THEN a
           ELSE IF a[Len(a)][2] + 1 = b[1][1]
                THEN SubSeq(a, 1, Len(a) - 1) \o <<<<a[Len(a)][1], b[1][2]>>>>
                     \o Tail(b)
                ELSE a \o b)

\* The first k bytes of c.
RECURSIVE CTake(_, _)
CTake(c0, k) ==
    With(c0, LAMBDA c :
        IF k <= 0 \/ c = <<>> THEN <<>>
        ELSE IF k >= c[1][2] - c[1][1] + 1
             THEN CCat(<<c[1]>>, CTake(Tail(c), k - (c[1][2] - c[1][1] + 1)))
             ELSE <<<<c[1][1], c[1][1] + k - 1>>>>)

\* c without its first k bytes.
RECURSIVE CDrop(_, _)
CDrop(c0, k) ==
    With(c0, LAMBDA c :
        IF k <= 0 \/ c = <<>> THEN c
        ELSE IF k >= c[1][2] - c[1][1] + 1
             THEN CDrop(Tail(c), k - (c[1][2] - c[1][1] + 1))
             ELSE <<<<c[1][1] + k, c[1][2]>>>> \o Tail(c))

Bytes(from, n) == IF n = 0 THEN <<>> ELSE <<<<from, from + n - 1>>>>

\* --------------------------------------------------- files and the clock

\* A file name is <<path, postfix>>: the path itself has NoPostfix, a backup
\* carries the formatted rotation time.
FileName(path) == <<path, NoPostfix>>

\* time.Time.Format(fw.rotatePostfix): the default layout is time.RFC3339,
\* which keeps whole seconds and drops the rest.
FormatTime(t) == t \div TicksPerSecond

\* A slip: the postfix is the raw clock reading, not the formatted time.
BackupNameUnformatted(name, t) == <<name[1], t>>

BackupName(name, t) == <<name[1], FormatTime(t)>>

\* One step of a handler's trace: what it did, in order.
Ev(e, ok, n, data, name, size, staged) ==
    [e |-> e, ok |-> ok, n |-> n, data |-> data, name |-> name,
     size |-> size, staged |-> staged]

Emit(s, ev) == [s EXCEPT !.ev = Append(@, ev)]

Ret(s, n, err) == [s EXCEPT !.n = n, !.err = err]

\* file.Close(): the handle is closed; closing a closed handle only returns
\* an error, which every caller drops.
CloseFile(s, h) == [s EXCEPT !.handles[h].open = FALSE]

\* file.Write(p) on an *os.File opened O_APPEND: a closed handle takes
\* nothing; a failing write may have delivered a prefix.
FileWrite(s, h, p) ==
    LET name == s.handles[h].name IN
    IF ~s.handles[h].open THEN Ret(s, 0, "closed")
    ELSE IF s.fault \in {"write0", "write1"} THEN
        With(CTake(p, IF s.fault = "write1" /\ CLen(p) > 1 THEN 1 ELSE 0),
             LAMBDA d :
                Ret(Emit([s EXCEPT !.fs[name] = CCat(@, d), !.fault = "none"],
                         Ev("filewrite", FALSE, CLen(d), d, name, 0, <<>>)),
                    CLen(d), "io"))
    ELSE
        Ret(Emit([s EXCEPT !.fs[name] = CCat(@, p)],
                 Ev("filewrite", TRUE, CLen(p), p, name, 0, <<>>)),
            CLen(p), "nil")

\* openFileFn(name, flags, mode) with os.O_CREATE | os.O_WRONLY | os.O_APPEND:
\* the file is created when it does not exist; s.n is the new handle.
OpenFileFn(s, name) ==
    IF s.fault = "open" THEN Ret([s EXCEPT !.fault = "none"], 0, "io")
    ELSE Ret([s EXCEPT !.fs = IF name \in DOMAIN s.fs THEN s.fs
                              ELSE [x \in DOMAIN s.fs \cup {name} |->
                                       IF x = name THEN <<>> ELSE s.fs[x]],
                       !.handles = Append(@, [name |-> name, open |-> TRUE])],
             Len(s.handles) + 1, "nil")

\* renameFileFn(oldpath, newpath) = os.Rename: fails when oldpath does not
\* exist; replaces newpath when it does.
RenameFileFn(s, old, new) ==
    IF s.fault = "rename" THEN Ret([s EXCEPT !.fault = "none"], 0, "io")
    ELSE IF old \notin DOMAIN s.fs THEN Ret(s, 0, "io")
    ELSE Ret([s EXCEPT !.fs = [x \in (DOMAIN s.fs \ {old}) \cup {new} |->
                                  IF x = new THEN s.fs[old] ELSE s.fs[x]]],
             0, "nil")

\* ------------------------------------------------------------ writeCounter

\* writeCounter.Write: delegate, then count what the sink took.
WcWrite(s, p) ==
    With(FileWrite(s, s.wc.wr, p), LAMBDA r :
        [r EXCEPT !.wc.flushedBytes = (@ + r.n) % UintMod])

\* --------------------------------------------------------- bufio.Writer

Buffered(s) == CLen(s.buf.data)

Available(s) == BufSize - CLen(s.buf.data)

\* b.wr.Write(p): the buffer's target is the file itself or the counter.
WrWrite(s, p) ==
    IF s.buf.wr.kind = "wc" THEN WcWrite(s, p) ELSE FileWrite(s, s.buf.wr.h, p)

\* bufio.Writer.Flush: a sticky error is returned at once; what the target
\* did not take stays in the buffer and the error sticks.
BufFlush(s) ==
    IF s.buf.err # "nil" THEN Ret(s, 0, s.buf.err)
    ELSE IF Buffered(s) = 0 THEN Ret(s, 0, "nil")
    ELSE With(WrWrite(s, s.buf.data), LAMBDA r :
            IF r.err # "nil"
            THEN [r EXCEPT !.buf.data = CDrop(@, r.n), !.buf.err = r.err]
            ELSE [r EXCEPT !.buf.data = <<>>])

\* bufio.Writer.Write: while p does not fit, either write it straight to the
\* target (empty buffer) or fill the buffer and flush it; then copy the rest.
RECURSIVE BufWriteLoop(_, _, _)
BufWriteLoop(s, p, nn) ==
    IF CLen(p) > Available(s) /\ s.buf.err = "nil" THEN
        IF Buffered(s) = 0 THEN
            With(WrWrite(s, p), LAMBDA r :
                With(CDrop(p, r.n), LAMBDA rest :
                    BufWriteLoop([r EXCEPT !.buf.err = r.err], rest, nn + r.n)))
        ELSE
            With(Available(s), LAMBDA n :
                With(BufFlush([s EXCEPT !.buf.data = CCat(@, CTake(p, n))]),
                     LAMBDA r :
                        With(CDrop(p, n), LAMBDA rest :
                            BufWriteLoop(r, rest, nn + n))))
    ELSE IF s.buf.err # "nil" THEN Ret(s, nn, s.buf.err)
    ELSE Ret([s EXCEPT !.buf.data = CCat(@, p)], nn + CLen(p), "nil")

BufWrite(s, p) == BufWriteLoop(s, p, 0)

\* A slip: the rebind done with bufio.Writer.Reset, which drops what is
\* staged and clears the sticky error.
SetBufWriterReset(s, wr) ==
    [s EXCEPT !.buf.wr = wr, !.buf.data = <<>>, !.buf.err = "nil"]

\* setBufWriter: store wr into the bufio.Writer's wr field; nothing else of
\* the buffer is touched.
SetBufWriter(s, wr) == [s EXCEPT !.buf.wr = wr]

\* ----------------------------------------------------- FileWriter helpers

\* getFileSize: file.Stat().Size(), or the stat failure.
GetFileSize(s, h) ==
    IF s.fault = "stat" THEN Ret([s EXCEPT !.fault = "none"], 0, "stat")
    ELSE Ret(s, CLen(s.fs[s.handles[h].name]), "nil")

\* openFile: open, stat, then attach the handle and take its size as fw.size.
\* A stat failure returns with the new handle open and attached nowhere.
OpenFile(s, name) ==
    With(OpenFileFn(s, name), LAMBDA o :
        IF o.err # "nil" THEN Ret(o, 0, "open")
        ELSE With(GetFileSize(o, o.n), LAMBDA g :
                IF g.err # "nil" THEN g
                ELSE Ret([g EXCEPT !.fw.file = o.n, !.fw.size = g.n % UintMod],
                         0, "nil")))

\* What rotateFile leaves in the trace: the staged byte count it found, the
\* content of the file it retired, the backup name, and fw.size and the
\* staged bytes it left.
RotateEv(s, r, ok) ==
    Ev("rotate", ok, Buffered(s),
       IF s.handles[s.fw.file].name \in DOMAIN s.fs
       THEN s.fs[s.handles[s.fw.file].name] ELSE <<>>,
       BackupName(s.handles[s.fw.file].name, s.now), r.fw.size, r.buf.data)

\* rotateFile without its fw.file.Close().
RotateFileNoClose(s) ==
    LET name == s.handles[s.fw.file].name IN
    With(RenameFileFn(s, name, BackupName(name, s.now)),
         LAMBDA r :
            IF r.err # "nil"
            THEN Ret(Emit(r, RotateEv(s, r, FALSE)), 0, "rename")
            ELSE With(OpenFileFn(r, name), LAMBDA o :
                    IF o.err # "nil"
                    THEN Ret(Emit(o, RotateEv(s, o, FALSE)), 0, "open")
                    ELSE With(SetBufWriter(
                                [o EXCEPT !.fw.file = o.n,
                                          !.fw.size = Buffered(o) % UintMod,
                                          !.wc.wr = o.n],
                                [kind |-> "wc", h |-> 0]),
                              LAMBDA b :
                                Ret(Emit(b, RotateEv(s, b, TRUE)), 0, "nil"))))

\* rotateFile: close the active file, rename it to <name>.<formatted now>,
\* open a fresh file at name, attach it, set fw.size to the staged byte
\* count, point the counter at the new file and the buffer at the counter.
RotateFile(s) ==
    LET name == s.handles[s.fw.file].name IN
    With(RenameFileFn(CloseFile(s, s.fw.file), name, BackupName(name, s.now)),
         LAMBDA r :
            IF r.err # "nil"
            THEN Ret(Emit(r, RotateEv(s, r, FALSE)), 0, "rename")
            ELSE With(OpenFileFn(r, name), LAMBDA o :
                    IF o.err # "nil"
                    THEN Ret(Emit(o, RotateEv(s, o, FALSE)), 0, "open")
                    ELSE With(SetBufWriter(
                                [o EXCEPT !.fw.file = o.n,
                                          !.fw.size = Buffered(o) % UintMod,
                                          !.wc.wr = o.n],
                                [kind |-> "wc", h |-> 0]),
                              LAMBDA b :
                                Ret(Emit(b, RotateEv(s, b, TRUE)), 0, "nil"))))

\* The uint arithmetic of flushBuf: size += flushedBytes - bufSize.
FlushedSize(size, flushedBytes, bufSize) ==
    (size + ((flushedBytes + UintMod - bufSize) % UintMod)) % UintMod

\* flushBuf: flush the buffer, reconcile fw.size with what the counter saw,
\* reset the counter.
FlushBuf(s) ==
    With(BufFlush(s), LAMBDA f :
        With([f EXCEPT !.fw.size = FlushedSize(@, f.wc.flushedBytes, Buffered(s)),
                       !.wc.flushedBytes = 0],
             LAMBDA a :
                Ret(Emit(a, Ev("flushBuf", f.err = "nil",
                               Buffered(s) - Buffered(f), <<>>, <<>>,
                               a.fw.size, a.buf.data)),
                    0, IF f.err # "nil" THEN "flush" ELSE "nil")))

\* ------------------------------------------------------ public operations

\* Stage with the batch test fw.batchSize > fw.maxBatchSize.
StageStrict(s, p) ==
    With(BufWrite(s, p), LAMBDA b :
        With(Emit([b EXCEPT !.fw.size = (@ + b.n) % UintMod],
                  Ev("stage", b.err = "nil", b.n, p, <<>>,
                     (b.fw.size + b.n) % UintMod, b.buf.data)),
             LAMBDA c :
                IF b.err # "nil" THEN Ret(c, b.n, "write")
                ELSE IF c.fw.batchSize + 1 > c.fw.maxBatchSize
                THEN With(FlushBuf([c EXCEPT !.fw.batchSize = 0]), LAMBDA f :
                        Ret(f, b.n, f.err))
                ELSE Ret([c EXCEPT !.fw.batchSize = @ + 1], b.n, "nil")))

\* Stage returning 0, not n, when fw.buf.Write fails.
StageDropsCount(s, p) ==
    With(BufWrite(s, p), LAMBDA b :
        With(Emit([b EXCEPT !.fw.size = (@ + b.n) % UintMod],
                  Ev("stage", b.err = "nil", b.n, p, <<>>,
                     (b.fw.size + b.n) % UintMod, b.buf.data)),
             LAMBDA c :
                IF b.err # "nil" THEN Ret(c, 0, "write")
                ELSE IF c.fw.batchSize + 1 >= c.fw.maxBatchSize
                THEN With(FlushBuf([c EXCEPT !.fw.batchSize = 0]), LAMBDA f :
                        Ret(f, b.n, f.err))
                ELSE Ret([c EXCEPT !.fw.batchSize = @ + 1], b.n, "nil")))

\* The second half of FileWriter.Write: stage p, count it into fw.size, then
\* count the entry and flush when the batch is full.
Stage(s, p) ==
    With(BufWrite(s, p), LAMBDA b :
        With(Emit([b EXCEPT !.fw.size = (@ + b.n) % UintMod],
                  Ev("stage", b.err = "nil", b.n, p, <<>>,
                     (b.fw.size + b.n) % UintMod, b.buf.data)),
             LAMBDA c :
                IF b.err # "nil" THEN Ret(c, b.n, "write")
                ELSE IF c.fw.batchSize + 1 >= c.fw.maxBatchSize
                THEN With(FlushBuf([c EXCEPT !.fw.batchSize = 0]), LAMBDA f :
                        Ret(f, b.n, f.err))
                ELSE Ret([c EXCEPT !.fw.batchSize = @ + 1], b.n, "nil")))

\* Write going on to stage p after a failed rotation or flush.
WriteStageAnyway(s, p) ==
    IF (s.fw.size + CLen(p)) % UintMod >= s.fw.maxSize
    THEN With(RotateFile([s EXCEPT !.fw.batchSize = 0]), LAMBDA r :
            IF r.err # "nil" THEN Stage(r, p)
            ELSE With(FlushBuf(r), LAMBDA f : Stage(f, p)))
    ELSE Stage(s, p)

\* FileWriter.Write, between fw.mu.Lock() and the deferred Unlock().
Write(s, p) ==
    IF (s.fw.size + CLen(p)) % UintMod >= s.fw.maxSize
    THEN With(RotateFile([s EXCEPT !.fw.batchSize = 0]), LAMBDA r :
            IF r.err # "nil" THEN Ret(r, 0, r.err)
            ELSE With(FlushBuf(r), LAMBDA f :
                    IF f.err # "nil" THEN Ret(f, 0, f.err)
                    ELSE Stage(f, p)))
    ELSE Stage(s, p)

\* FileWriter.Open: openFile, then point the buffer straight at the new file.
Open(s, path) ==
    With(OpenFile(s, FileName(path)), LAMBDA o :
        IF o.err # "nil" THEN o
        ELSE Ret(SetBufWriter(o, [kind |-> "file", h |-> o.fw.file]), 0, "nil"))

\* A deferred function that leaves the file open.
DeferredNoClose(s) == s

\* The deferred function of Close: fw.file.Close().
Deferred(s) == CloseFile(s, s.fw.file)

\* Close flushing whatever its rotation returned.
CloseFlushAlways(s) ==
    IF s.fw.flushTicker = "nil" THEN Ret(Deferred(s), 0, "panic")
    ELSE IF s.fw.done = "closed" THEN Ret(Deferred(s), 0, "panic")
    ELSE With([s EXCEPT !.fw.done = "closed"], LAMBDA d :
            IF (d.fw.size + Buffered(d)) % UintMod > d.fw.maxSize
            THEN With(RotateFile(d), LAMBDA r :
                    With(FlushBuf(r), LAMBDA f : Ret(Deferred(f), 0, r.err)))
            ELSE With(FlushBuf(d), LAMBDA f : Ret(Deferred(f), 0, "nil")))

\* FileWriter.Close.  flushTicker.Stop() on a nil ticker and close(fw.done)
\* on a closed channel panic; the deferred fw.file.Close() runs in every
\* case.  The rotation error, if any, is what Close returns.
Close(s) ==
    IF s.fw.flushTicker = "nil" THEN Ret(Deferred(s), 0, "panic")
    ELSE IF s.fw.done = "closed" THEN Ret(Deferred(s), 0, "panic")
    ELSE With([s EXCEPT !.fw.done = "closed"], LAMBDA d :
            IF (d.fw.size + Buffered(d)) % UintMod > d.fw.maxSize
            THEN With(RotateFile(d), LAMBDA r :
                    IF r.err = "nil"
                    THEN With(FlushBuf(r), LAMBDA f : Ret(Deferred(f), 0, "nil"))
                    ELSE Deferred(r))
            ELSE With(FlushBuf(d), LAMBDA f : Ret(Deferred(f), 0, "nil")))

\* NewFileWriter(file, opts...) that returned no error: the file is open,
\* fw.size is its size, the counter's sink is the file and the buffer is
\* built on the file itself.
NewFileWriter(path, content, maxSize, maxBatchSize, flushTicker) ==
    [fw |-> [file |-> 1, size |-> CLen(content) % UintMod, maxSize |-> maxSize,
             batchSize |-> 0, maxBatchSize |-> maxBatchSize,
             flushTicker |-> flushTicker, done |-> "open"],
     buf |-> [data |-> <<>>, err |-> "nil", wr |-> [kind |-> "file", h |-> 1]],
     wc |-> [wr |-> 1, flushedBytes |-> 0],
     handles |-> <<[name |-> FileName(path), open |-> TRUE]>>,
     fs |-> [x \in {FileName(path)} |-> content]]

\* ------------------------------------------------------------- the system

\* fw, buf, wc: the FileWriter, its bufio.Writer and its writeCounter.
\* handles: every file handle opened so far; fs: the files on disk.
\* now: the last reading of the clock (time.Now() in rotateFile).  nextByte: the number of the next byte handed to Write.
\* faults, ops: I/O failures and operations so far.
\* last: the last operation, what it returned and its trace.
\* hist: what an observer of the calls has seen since construction.
\* tickerC: the ticks waiting in fw.flushTicker.C, a channel of capacity 1.
\* mu: the goroutine holding fw.mu, or 0.  pc: where each goroutine is in
\* the operation it called: in none ("idle"), at its fw.mu.Lock() ("lock"),
\* past it ("in"), or past the body with the deferred Unlock to run ("out").
VARIABLES fw, buf, wc, handles, fs, now, nextByte, faults, ops, last, hist,
          tickerC, mu, pc

vars == <<fw, buf, wc, handles, fs, now, nextByte, faults, ops, last, hist,
          tickerC, mu, pc>>

Goroutines == 1..MaxGoroutines

Faults == {"rename", "open", "stat", "write0", "write1"}

\* What time.Now() may return next: the clock does not run backwards.
Clock == {t \in now..(now + 1) : t <= MaxTime}

\* The state a handler starts from, with the failure injected into it and
\* the time its rotateFile would read.
Start(fault, t) ==
    [fw |-> fw, buf |-> buf, wc |-> wc, handles |-> handles, fs |-> fs,
     now |-> t, fault |-> fault, ev |-> <<>>, n |-> 0, err |-> "nil"]

\* The number of Writes staged since flushBuf last ran, after the trace ev.
RECURSIVE SinceFlush(_, _)
SinceFlush(k, ev) ==
    IF ev = <<>> THEN k
    ELSE IF ev[1].e = "flushBuf" THEN SinceFlush(0, Tail(ev))
    ELSE IF ev[1].e = "stage" /\ ev[1].ok THEN SinceFlush(k + 1, Tail(ev))
    ELSE SinceFlush(k, Tail(ev))

\* Whether, after the trace ev of a Write, a rotateFile of a Write has failed
\* since flushBuf last ran (b: whether that was so before).
HasEv(ev, e) == \E i \in 1..Len(ev) : ev[i].e = e

RECURSIVE RotFailSinceFlush(_, _)
RotFailSinceFlush(b, ev) ==
    IF ev = <<>> THEN b
    ELSE IF ev[1].e = "flushBuf" THEN RotFailSinceFlush(FALSE, Tail(ev))
    ELSE IF ev[1].e = "rotate" /\ ~ev[1].ok THEN RotFailSinceFlush(TRUE, Tail(ev))
    ELSE RotFailSinceFlush(b, Tail(ev))

\* Whether the writer has an active file after the trace ev, as its caller
\* sees it: "broken" once a rotateFile has failed, "recovered" once a
\* rotateFile has succeeded after that (h: what it was before).
RECURSIVE Health(_, _)
Health(h, ev) ==
    IF ev = <<>> THEN h
    ELSE IF ev[1].e # "rotate" THEN Health(h, Tail(ev))
    ELSE IF ~ev[1].ok THEN Health("broken", Tail(ev))
    ELSE Health(IF h = "broken" THEN "recovered" ELSE h, Tail(ev))

\* The successful rotations in the trace ev.
Rotations(ev) == Cardinality({i \in 1..Len(ev) : ev[i].e = "rotate" /\ ev[i].ok})

\* The observer's record after a handler: the calls made, the bytes Write
\* reported accepted, the rotations done, the Writes staged since the last
\* flushBuf, whether a rotation of a Write has failed since, whether a
\* failed rotation has been followed by a successful rotation or Open.
Observe(s, op, arg) ==
    [init |-> hist.init,
     log |-> Append(hist.log, <<op, arg>>),
     acc |-> IF op = "Write" THEN CCat(hist.acc, Bytes(nextByte, s.n))
             ELSE hist.acc,
     rot |-> hist.rot + Rotations(s.ev),
     sinceFlush |-> SinceFlush(hist.sinceFlush, s.ev),
     rotFail |-> IF op = "Write" THEN RotFailSinceFlush(hist.rotFail, s.ev)
                 ELSE hist.rotFail /\ ~HasEv(s.ev, "flushBuf"),
     health |-> IF op = "Open"
                THEN (IF s.err = "nil" /\ hist.health = "broken"
                      THEN "recovered" ELSE hist.health)
                ELSE Health(hist.health, s.ev)]

\* The state a handler leaves.  An injected failure counts only when the
\* handler ran into it, a clock reading only when rotateFile took it.
Commit(s, op, arg, fault) ==
    /\ fault # "none" => s.fault = "none"
    /\ s.now # now => \E i \in 1..Len(s.ev) : s.ev[i].e = "rotate"
    /\ now' = s.now
    /\ fw' = s.fw
    /\ buf' = s.buf
    /\ wc' = s.wc
    /\ handles' = s.handles
    /\ fs' = s.fs
    /\ faults' = IF fault = "none" THEN faults ELSE faults + 1
    /\ ops' = ops + 1
    /\ last' = [op |-> op, arg |-> arg, n |-> s.n, err |-> s.err, ev |-> s.ev]
    /\ hist' = Observe(s, op, arg)
    /\ tickerC' = tickerC

Init ==
    \E c \in Configs :
        \E s \in {NewFileWriter("test.log", Bytes(1, c.fileSize), c.maxSize,
                                c.maxBatchSize, c.flushTicker)} :
           /\ fw = s.fw
           /\ buf = s.buf
           /\ wc = s.wc
           /\ handles = s.handles
           /\ fs = s.fs
           /\ now = 0
           /\ nextByte = c.fileSize + 1
           /\ faults = 0
           /\ ops = 0
           /\ last = [op |-> "new", arg |-> 0, n |-> 0, err |-> "nil", ev |-> <<>>]
           /\ hist = [init |-> c.fileSize, log |-> <<>>, acc |-> <<>>,
                      rot |-> 0, sinceFlush |-> 0, rotFail |-> FALSE,
                      health |-> "ok"]
           /\ tickerC = 0
           /\ mu = 0
           /\ pc = [g \in Goroutines |-> [at |-> "idle", op |-> "none"]]

DoWrite ==
    \E len \in PayloadSizes, fault \in Faults \cup {"none"}, t \in Clock :
        /\ ops < MaxOps
        /\ fault # "none" => faults < MaxFaults
        /\ \E s0 \in {Start(fault, t)} :
              \E s \in {Write(s0, Bytes(nextByte, len))} :
                  Commit(s, "Write", len, fault)
        /\ nextByte' = nextByte + len
        /\ UNCHANGED <<mu, pc>>

DoOpen ==
    \E path \in Paths, fault \in Faults \cup {"none"} :
        /\ ops < MaxOps
        /\ fault # "none" => faults < MaxFaults
        /\ \E s0 \in {Start(fault, now)} :
              \E s \in {Open(s0, path)} : Commit(s, "Open", 0, fault)
        /\ UNCHANGED <<nextByte, mu, pc>>

DoClose ==
    \E fault \in Faults \cup {"none"}, t \in Clock :
        /\ ops < MaxOps
        /\ fault # "none" => faults < MaxFaults
        /\ \E s0 \in {Start(fault, t)} :
              \E s \in {Close(s0)} : Commit(s, "Close", 0, fault)
        /\ UNCHANGED <<nextByte, mu, pc>>

Next == DoWrite \/ DoOpen \/ DoClose

Spec == Init /\ [][Next]_vars

\* The runtime's side of fw.flushTicker (time.NewTicker): while the ticker is
\* not stopped, a tick is sent on its channel when the channel has room and
\* dropped otherwise.  Nothing in the package receives from the channel.
TickerFire ==
    /\ fw.flushTicker = "set"
    /\ fw.done = "open"
    /\ tickerC = 0
    /\ tickerC' = 1
    /\ UNCHANGED <<fw, buf, wc, handles, fs, now, nextByte, faults, ops, last,
                   hist, mu, pc>>

NextTimer == DoWrite \/ DoOpen \/ DoClose \/ TickerFire

\* The writer with its ticker running: the ticker keeps firing; callers may
\* stop calling at any point.
TimerSpec == Init /\ [][NextTimer]_vars /\ WF_vars(TickerFire)

\* fw.mu.Lock() at the head of an operation returns once the mutex is free,
\* whichever operation it is.  An Open that did not lock:
MuFreeOpenUnlocked(m, op) == op = "Open" \/ m = 0

MuFree(m, op) == m = 0

\* A goroutine calls an operation and reaches its fw.mu.Lock().
GoCall ==
    \E g \in Goroutines, op \in {"Write", "Open", "Close"} :
        /\ ops + Cardinality({h \in Goroutines : pc[h].at \in {"lock", "in"}})
              < MaxOps
        /\ pc[g].at = "idle"
        /\ pc' = [pc EXCEPT ![g] = [at |-> "lock", op |-> op]]
        /\ UNCHANGED <<fw, buf, wc, handles, fs, now, nextByte, faults, ops,
                       last, hist, tickerC, mu>>

\* fw.mu.Lock() returns to a goroutine waiting in it.
GoLock ==
    \E g \in Goroutines :
        /\ pc[g].at = "lock"
        /\ MuFree(mu, pc[g].op)
        /\ mu' = g
        /\ pc' = [pc EXCEPT ![g].at = "in"]
        /\ UNCHANGED <<fw, buf, wc, handles, fs, now, nextByte, faults, ops,
                       last, hist, tickerC>>

\* The bodies of the operations, run by a goroutine past its Lock (here
\* without injected I/O failures).
GoWrite ==
    \E g \in Goroutines, len \in PayloadSizes, t \in Clock :
        /\ pc[g] = [at |-> "in", op |-> "Write"]
        /\ \E s0 \in {Start("none", t)} :
              \E s \in {Write(s0, Bytes(nextByte, len))} :
                  Commit(s, "Write", len, "none")
        /\ nextByte' = nextByte + len
        /\ pc' = [pc EXCEPT ![g].at = "out"]
        /\ UNCHANGED mu

GoOpen ==
    \E g \in Goroutines, path \in Paths :
        /\ pc[g] = [at |-> "in", op |-> "Open"]
        /\ \E s0 \in {Start("none", now)} :
              \E s \in {Open(s0, path)} : Commit(s, "Open", 0, "none")
        /\ pc' = [pc EXCEPT ![g].at = "out"]
        /\ UNCHANGED <<nextByte, mu>>

GoClose ==
    \E g \in Goroutines, t \in Clock :
        /\ pc[g] = [at |-> "in", op |-> "Close"]
        /\ \E s0 \in {Start("none", t)} :
              \E s \in {Close(s0)} : Commit(s, "Close", 0, "none")
        /\ pc' = [pc EXCEPT ![g].at = "out"]
        /\ UNCHANGED <<nextByte, mu>>

\* The deferred fw.mu.Unlock(), which runs when the body returns or panics.
GoUnlock ==
    \E g \in Goroutines :
        /\ pc[g].at = "out"
        /\ mu' = 0
        /\ pc' = [pc EXCEPT ![g] = [at |-> "idle", op |-> "none"]]
        /\ UNCHANGED <<fw, buf, wc, handles, fs, now, nextByte, faults, ops,
                       last, hist, tickerC>>

NextGo == GoCall \/ GoLock \/ GoWrite \/ GoOpen \/ GoClose \/ GoUnlock

\* Several goroutines calling Write, Open and Close on one writer.
GoSpec == Init /\ [][NextGo]_vars

\* ------------------------------------------------------- what is observed

\* The file the writer's handle names, the bytes in it, the bytes staged.
ActiveName == handles[fw.file].name

OnDisk == IF ActiveName \in DOMAIN fs THEN CLen(fs[ActiveName]) ELSE 0

Staged == CLen(buf.data)

\* The bytes the trace ev delivered to files after its i-th step.
RECURSIVE DeliveredAfter(_, _)
DeliveredAfter(ev, i) ==
    IF i >= Len(ev) THEN <<>>
    ELSE IF ev[i + 1].e = "filewrite"
         THEN CCat(ev[i + 1].data, DeliveredAfter(ev, i + 1))
         ELSE DeliveredAfter(ev, i + 1)

OnlyWrites == \A i \in 1..Len(hist.log) : hist.log[i][1] = "Write"

\* A step of the named operation.
Step(op) == ops' = ops + 1 /\ last'.op = op

\* --------------------------------------------------------------- claims

\* C1 (as claimed): between public operations fw.size is the bytes in the
\* active file plus the bytes staged in the buffer.  Stated for runs without
\* any I/O failure.
C1_SizeAccounting == faults = 0 => fw.size = OnDisk + Staged

\* C2 (as claimed): a Write for which the bytes in the active file plus the
\* staged bytes plus len(p) reach maxSize performs exactly one rotation, and
\* performs it before p is staged.  Stated for runs without any I/O failure.
C2_RotationTrigger ==
    [][(Step("Write") /\ faults' = 0
        /\ OnDisk + Staged + last'.arg >= fw.maxSize)
       => /\ Rotations(last'.ev) = 1
          /\ \A i, j \in 1..Len(last'.ev) :
                (last'.ev[i].e = "rotate" /\ last'.ev[j].e = "stage") => i < j]_vars

\* C3 (as claimed): Writes alone on a writer opened on an empty file, their
\* cumulative length below maxSize: no rotation, and fw.size is the sum of
\* the byte counts the Writes returned.
C3_SizeIsSumOfAccepted ==
    (faults = 0 /\ hist.init = 0 /\ OnlyWrites /\ nextByte - 1 < fw.maxSize)
    => (hist.rot = 0 /\ fw.size = CLen(hist.acc))

\* The successful rotations of the step being taken, as indices of its trace.
RotatedAt(i) ==
    /\ ops' = ops + 1
    /\ i \in 1..Len(last'.ev)
    /\ last'.ev[i].e = "rotate"
    /\ last'.ev[i].ok

\* C4: after a successful rotation the backup <path>.<formatted now> holds
\* what the retired file held, the path holds a fresh file (only what was
\* written after the rotation), the retired handle is closed and the newest
\* handle, at the path, is the writer's (and open, until Close's deferred
\* close).
C4_RotationBackup ==
    [][\A i \in 1..Len(last'.ev) : RotatedAt(i) =>
        LET name == handles[fw.file].name
            backup == <<name[1], now' \div TicksPerSecond>>
        IN /\ name \in DOMAIN fs
           /\ backup \in DOMAIN fs'
           /\ fs'[backup] = fs[name]
           /\ name \in DOMAIN fs'
           /\ fs'[name] = DeliveredAfter(last'.ev, i)
           /\ Len(handles') = Len(handles) + 1
           /\ fw'.file = Len(handles')
           /\ handles'[fw'.file].name = name
           /\ ~handles'[fw.file].open
           /\ last'.op = "Write" => handles'[fw'.file].open]_vars

\* A rotation that retired a file holding bytes, read at a clock tick that
\* is not a whole second.
C4_Witness ==
    /\ \E i \in 1..Len(last.ev) :
          /\ last.ev[i].e = "rotate"
          /\ last.ev[i].ok
          /\ last.ev[i].data # <<>>
          /\ last.ev[i].name \in DOMAIN fs
          /\ fs[last.ev[i].name] = last.ev[i].data
    /\ now % TicksPerSecond # 0

\* The first flushBuf of the trace ev after its i-th step, or 0.
FirstFlushAfter(ev, i) ==
    IF \E j \in (i + 1)..Len(ev) : ev[j].e = "flushBuf"
    THEN CHOOSE j \in (i + 1)..Len(ev) :
            /\ ev[j].e = "flushBuf"
            /\ \A k \in (i + 1)..(j - 1) : ev[k].e # "flushBuf"
    ELSE 0

Scenario(log) ==
    /\ fw.maxSize = 20
    /\ fw.flushTicker = "set"
    /\ hist.init = 0
    /\ faults = 0
    /\ hist.log = log

Backups == {f \in DOMAIN fs : f[1] = "test.log" /\ f[2] # NoPostfix}

\* C6 (as claimed): maxSize = 20, empty file, Write(14 bytes) twice, Close:
\* a rotation took place, a backup holds exactly the first 14 bytes and the
\* active file exactly the second 14.
C6_TwoWriteScenario ==
    Scenario(<<<<"Write", 14>>, <<"Write", 14>>, <<"Close", 0>>>>)
    => /\ hist.rot >= 1
       /\ \E b \in Backups : fs[b] = Bytes(1, 14)
       /\ FileName("test.log") \in DOMAIN fs
       /\ fs[FileName("test.log")] = Bytes(15, 14)

\* C7 (as claimed): Close rotates only when the bytes in the active file
\* plus the bytes staged exceed maxSize.  Stated for runs without any I/O
\* failure.
C7_CloseRotatesOnlyWhenOversize ==
    [][(Step("Close") /\ faults' = 0 /\ HasEv(last'.ev, "rotate"))
       => OnDisk + Staged > fw.maxSize]_vars

\* The stage step of the trace ev, and whether it took the payload.
StageIdx(ev) == CHOOSE i \in 1..Len(ev) : ev[i].e = "stage"

Accepted(ev) == HasEv(ev, "stage") /\ ev[StageIdx(ev)].ok

\* The Writes staged since flushBuf last ran, the one being taken included.
CountAtStage ==
    SinceFlush(hist.sinceFlush, SubSeq(last'.ev, 1, StageIdx(last'.ev)))

C9_CloseClosesHandle == last.op = "Close" => ~handles[fw.file].open

\* A Close whose rotation renamed the file and failed to reopen the path.
C9_Witness ==
    /\ last.op = "Close"
    /\ last.err = "open"
    /\ ActiveName \notin DOMAIN fs
    /\ ~handles[fw.file].open

\* C10 (as claimed): a Close whose rotation failed has run flushBuf.
C10_FlushRegardless ==
    (last.op = "Close" /\ last.err \in {"rename", "open"})
    => HasEv(last.ev, "flushBuf")

\* C10 (amended): Close runs its final flush exactly when it returns nil
\* (its rotation succeeded or was not needed); when its rotation fails,
\* flushBuf is not run, nothing is delivered to any file, and Close returns
\* the rotation error.
C10_FlushOnlyAfterRotationOk ==
    last.op = "Close" =>
        /\ HasEv(last.ev, "flushBuf") <=> last.err = "nil"
        /\ last.err \in {"rename", "open"} <=>
              \E i \in 1..Len(last.ev) : last.ev[i].e = "rotate" /\ ~last.ev[i].ok
        /\ last.err # "nil" => ~HasEv(last.ev, "filewrite")

\* A Close whose rotation failed at the rename, with bytes left staged.
C10_Witness ==
    /\ last.op = "Close"
    /\ last.err = "rename"
    /\ ~HasEv(last.ev, "flushBuf")
    /\ Staged > 0

\* The flush timer is enabled and not stopped.
TimerOn == fw.flushTicker = "set" /\ fw.done = "open"

\* C11 (as claimed): on a writer whose flush timer is running, staged bytes
\* are eventually delivered (nothing stays staged) although no further
\* operation is called; a run is excused once an I/O failure has occurred
\* or the timer has been stopped.
C11_TimerFlush ==
    (TimerOn /\ faults = 0 /\ Staged > 0)
        ~> (Staged = 0 \/ faults > 0 \/ ~TimerOn)

\* The handles that are open, and whether every one of them is the writer's.
OpenHandles == {h \in 1..Len(handles) : handles[h].open}

NoLeak == OpenHandles \subseteq {fw.file}

\* C12 (as claimed): at most one handle opened by the writer is open at any
\* time.  Stated for runs without any I/O failure.
C12_OneOpenHandle == faults = 0 => Cardinality(OpenHandles) <= 1

\* C12 (amended): rotateFile closes the attached handle before it attaches
\* the new one, so a Write or a Close that starts with no open handle but
\* the attached one ends so.  Open closes nothing: every handle open before
\* it stays open and the one it opens is open after it, attached when Open
\* returns nil and attached nowhere when its stat fails; Open ends with no
\* open handle but the attached one only when it starts so with the
\* attached handle closed (Close called first) and its stat does not fail.
C12_HandlesClosedByRotationOnly ==
    [][/\ ((Step("Write") \/ Step("Close")) /\ NoLeak) => NoLeak'
       /\ Step("Open") =>
            /\ OpenHandles \subseteq OpenHandles'
            /\ last'.err = "nil" =>
                 /\ Len(handles') = Len(handles) + 1
                 /\ fw'.file = Len(handles')
                 /\ handles'[fw'.file].open
            /\ last'.err = "stat" =>
                 /\ Len(handles') = Len(handles) + 1
                 /\ handles'[Len(handles')].open
                 /\ fw'.file = fw.file
            /\ last'.err = "open" => handles' = handles
            /\ NoLeak' <=> /\ NoLeak
                           /\ last'.err = "nil" => ~handles[fw.file].open
                           /\ last'.err # "stat"]_vars

\* An Open after a Close that followed a rotation: three handles opened so
\* far, the attached one alone is open.
C12_Witness ==
    /\ last.op = "Open"
    /\ last.err = "nil"
    /\ hist.rot >= 1
    /\ Len(handles) >= 3
    /\ OpenHandles = {fw.file}

\* C13 (as claimed): fw.batchSize is 0 right after every flushBuf: a
\* handler that ends with flushBuf (the batch flush of Write, the final
\* flush of Close) returns with batchSize 0, and a Write that staged its
\* payload after the flushBuf following its rotation, without a batch
\* flush, returns with batchSize 1.  Stated for runs without any I/O
\* failure.
C13_BatchZeroAfterFlush ==
    faults = 0 =>
        /\ (last.ev # <<>> /\ last.ev[Len(last.ev)].e = "flushBuf")
           => fw.batchSize = 0
        /\ (last.op = "Write" /\ HasEv(last.ev, "flushBuf")
                /\ Accepted(last.ev)
                /\ FirstFlushAfter(last.ev, StageIdx(last.ev)) = 0)
           => fw.batchSize = 1

\* Whether the byte string c holds a byte numbered lo or more.
HoldsFrom(c, lo) == \E i \in 1..Len(c) : c[i][2] >= lo

\* The step being taken is a Write whose rotateFile failed, or whose
\* flushBuf after a successful rotateFile failed.
RotationPathFailed ==
    /\ Step("Write")
    /\ \E i \in 1..Len(last'.ev) :
          \/ last'.ev[i].e = "rotate" /\ ~last'.ev[i].ok
          \/ /\ last'.ev[i].e = "flushBuf" /\ ~last'.ev[i].ok
             /\ \E j \in 1..(i - 1) : last'.ev[j].e = "rotate"
             /\ \A j \in 1..(i - 1) : last'.ev[j].e # "stage"

\* C14: a Write whose rotation fails, or whose flush after the rotation
\* fails, returns 0 and the error; the payload is not staged: the buffer and
\* the files hold none of its bytes, the buffer gains nothing, and fw.size
\* is unchanged when the rotation failed and, when the flush failed, the
\* count of the bytes the counter saw delivered (those of this flush and any
\* left uncollected in wc.flushedBytes): the payload's length is not in it.
C14_FailedRotationStagesNothing ==
    [][RotationPathFailed =>
        /\ last'.n = 0
        /\ last'.err \in {"rename", "open", "flush"}
        /\ ~HasEv(last'.ev, "stage")
        /\ ~HoldsFrom(buf'.data, nextByte)
        /\ \A f \in DOMAIN fs' : ~HoldsFrom(fs'[f], nextByte)
        /\ CLen(buf'.data) <= CLen(buf.data)
        /\ buf'.data = CDrop(buf.data, CLen(buf.data) - CLen(buf'.data))
        /\ last'.err \in {"rename", "open"} => fw'.size = fw.size
        /\ last'.err = "flush" =>
              fw'.size = wc.flushedBytes + CLen(buf.data) - CLen(buf'.data)
        /\ hist'.acc = hist.acc]_vars

\* A Write that rotated and whose flush delivered part of the staged bytes
\* and failed.
C14_Witness ==
    /\ last.op = "Write"
    /\ last.err = "flush"
    /\ last.n = 0
    /\ \E i \in 1..Len(last.ev) : last.ev[i].e = "rotate" /\ last.ev[i].ok
    /\ \E i \in 1..Len(last.ev) : last.ev[i].e = "filewrite" /\ last.ev[i].n = 1
    /\ Staged > 0

\* The bytes of c numbered lo..hi, counted.
RECURSIVE CountIn(_, _, _)
CountIn(c, lo, hi) ==
    IF c = <<>> THEN 0
    ELSE (LET a == IF c[1][1] > lo THEN c[1][1] ELSE lo
              b == IF c[1][2] < hi THEN c[1][2] ELSE hi
          IN IF b >= a THEN b - a + 1 ELSE 0) + CountIn(Tail(c), lo, hi)

\* The bytes numbered lo..hi in the files named in F, counted.
RECURSIVE CountInFiles(_, _, _)
CountInFiles(F, lo, hi) ==
    IF F = {} THEN 0
    ELSE LET f == CHOOSE x \in F : TRUE
         IN CountIn(fs[f], lo, hi) + CountInFiles(F \ {f}, lo, hi)

\* The first byte of the payload of the last Write.
PayloadStart == nextByte - last.arg

\* C15 (as claimed): a Write accepts all of its payload or none of it, and
\* the buffer and the files hold all of its bytes or none.
C15_AtomicStaging ==
    last.op = "Write" =>
        /\ last.n \in {0, last.arg}
        /\ CountIn(buf.data, PayloadStart, nextByte - 1)
              + CountInFiles(DOMAIN fs, PayloadStart, nextByte - 1)
           \in {0, last.arg}

\* C15 (amended): a Write accepts a prefix of its payload: the n it returns
\* is in 0..len(p), the first n bytes of p are in the buffer or the files,
\* once each, and no later byte of p is anywhere.  n = len(p) when
\* Write returns nil, and n is neither 0 nor len(p) only when a write to the
\* file failed (an I/O error, a closed file) while fw.buf.Write was draining
\* the buffer or writing p through; Write then returns the write error and
\* the buffer keeps the error.
C15_StagedPrefix ==
    last.op = "Write" =>
        /\ last.n \in 0..last.arg
        /\ last.err = "nil" => last.n = last.arg
        /\ CountIn(buf.data, PayloadStart, PayloadStart + last.n - 1)
              + CountInFiles(DOMAIN fs, PayloadStart, PayloadStart + last.n - 1)
           = last.n
        /\ ~HoldsFrom(buf.data, PayloadStart + last.n)
        /\ \A f \in DOMAIN fs : ~HoldsFrom(fs[f], PayloadStart + last.n)
        /\ last.n \notin {0, last.arg} =>
              /\ last.err = "write"
              /\ buf.err # "nil"

\* A Write of 4090 bytes onto 14 staged bytes: the buffer took 4082 of them
\* and its drain failed.
C15_Witness ==
    /\ last.op = "Write"
    /\ last.arg = 4090
    /\ last.n = 4082
    /\ last.err = "write"
    /\ Staged > 4082

\* The goroutines between their Lock and their Unlock, and what they share.
Inside == {g \in Goroutines : pc[g].at \in {"in", "out"}}

Shared == <<fw, buf, wc, handles, fs>>

\* The bytes of c are in the order they were handed to Write.
Ascending(c) == \A i \in 1..(Len(c) - 1) : c[i][2] < c[i + 1][1]

\* C16: whatever the interleaving of the goroutines' calls, at most one
\* goroutine is between its Lock and its Unlock, and it holds fw.mu; the
\* writer, its buffer and the files change only in the step of the body of
\* the operation that goroutine called, so every outcome is that of the
\* operations run one after the other in the order they took the lock
\* (hist.log); and in the buffer and in every file the bytes are in the
\* order Write accepted them, each payload's in one run.
C16_Serialized ==
    [][/\ Cardinality(Inside') <= 1
       /\ Inside' \subseteq {mu'}
       /\ Shared' # Shared =>
             /\ mu # 0
             /\ mu' = mu
             /\ pc[mu].at = "in"
             /\ pc'[mu].at = "out"
             /\ \A h \in Goroutines \ {mu} : pc'[h] = pc[h]
             /\ hist'.log = Append(hist.log, <<pc[mu].op, last'.arg>>)
       /\ Ascending(buf'.data)
       /\ \A f \in DOMAIN fs' : Ascending(fs'[f])
       /\ (Shared' # Shared /\ pc[mu].op = "Write") =>
             CountIn(buf'.data, nextByte, nextByte + last'.n - 1)
                + CountIn(fs'[handles'[fw'.file].name], nextByte,
                          nextByte + last'.n - 1)
             = last'.n]_vars

\* A goroutine is in Close, holding the lock after a Write staged bytes,
\* while another waits in the Lock of its Write.
C16_Witness ==
    /\ \E g, h \in Goroutines :
          /\ pc[g] = [at |-> "in", op |-> "Close"]
          /\ pc[h] = [at |-> "lock", op |-> "Write"]
          /\ mu = g
    /\ last.op = "Write"
    /\ Staged > 0

\* The trace ev ends with a flushBuf that directly follows a successful
\* rotateFile (which left fw.size = staged bytes, on an empty file).
EndsRotateFlush(ev) ==
    /\ Len(ev) >= 2
    /\ ev[Len(ev)].e = "flushBuf"
    /\ \E i \in 1..(Len(ev) - 1) :
          /\ ev[i].e = "rotate" /\ ev[i].ok
          /\ \A j \in (i + 1)..(Len(ev) - 1) : ev[j].e = "filewrite"

\* C17 (as claimed): flushBuf, entered with fw.size = bytes on disk + bytes
\* staged, leaves wc.flushedBytes = 0 and fw.size = bytes on disk + bytes
\* still staged, whether it delivered every staged byte (fw.size is then
\* unchanged) or failed after delivering a part.  Stated for the flushBuf
\* that ends an operation: the one of a Close that did not rotate, and the
\* one right after a successful rotation.
C17_FlushBufPostcondition ==
    [][/\ (Step("Close") /\ ~HasEv(last'.ev, "rotate")
              /\ HasEv(last'.ev, "flushBuf")
              /\ fw.size = OnDisk + Staged)
          => /\ wc'.flushedBytes = 0
             /\ fw'.size = OnDisk' + Staged'
             /\ Staged' = 0 => fw'.size = fw.size
       /\ (ops' = ops + 1 /\ EndsRotateFlush(last'.ev))
          => /\ wc'.flushedBytes = 0
             /\ fw'.size = OnDisk' + Staged']_vars

\* C18 (as claimed): once a failed rotation has been followed by a
\* successful rotation or Open, a Write that meets no new I/O failure is
\* accepted whole and returns nil, and when it flushes, its bytes are in the
\* active file and nothing stays staged, whatever Writes and flushes failed
\* in between.
C18_RecoveryAfterFailedRotation ==
    [][(Step("Write") /\ faults' = faults /\ hist'.health = "recovered")
       => /\ last'.n = last'.arg
          /\ last'.err = "nil"
          /\ (Accepted(last'.ev)
                /\ FirstFlushAfter(last'.ev, StageIdx(last'.ev)) # 0)
             => /\ CLen(buf'.data) = 0
                /\ handles'[fw'.file].name \in DOMAIN fs'
                /\ CountIn(fs'[handles'[fw'.file].name], nextByte,
                           nextByte + last'.arg - 1) = last'.arg]_vars

\* The backups of test.log with postfix 0..k, concatenated in that order
\* (rotation order: the postfix is the formatted rotation time).
RECURSIVE BackupsUpTo(_)
BackupsUpTo(k) ==
    IF k < 0 THEN <<>>
    ELSE CCat(BackupsUpTo(k - 1),
              IF <<"test.log", k>> \in DOMAIN fs THEN fs[<<"test.log", k>>]
              ELSE <<>>)

\* The backups, then the active file, then the staged bytes.
Stored ==
    CCat(CCat(BackupsUpTo(FormatTime(now)),
              IF ActiveName \in DOMAIN fs THEN fs[ActiveName] ELSE <<>>),
         buf.data)

\* Writes, then possibly one Close, and nothing else.
WritesThenClose ==
    \A i \in 1..Len(hist.log) :
        \/ hist.log[i][1] = "Write"
        \/ hist.log[i][1] = "Close" /\ i = Len(hist.log)

\* C19 (as claimed): with no filesystem failure, between the operations of
\* any sequence of Writes ending with Close, the backups in rotation order,
\* then the active file, then the staged bytes are the file's first content
\* followed by the accepted payloads in acceptance order, and after Close
\* nothing is staged.
C19_NoLossNoReorder ==
    (faults = 0 /\ WritesThenClose)
    => /\ Stored = CCat(Bytes(1, hist.init), hist.acc)
       /\ last.op = "Close" => Staged = 0

\* A uint that a subtraction has taken below zero: the upper half of the
\* range, which no count of bytes written here comes near.
Wrapped(n) == n >= UintMod \div 2

\* C20 (as claimed): fw.size += flushedBytes - staged in flushBuf never
\* wraps: neither the size a flushBuf leaves nor the size an operation
\* leaves is a wrapped value.  Stated for runs without any I/O failure.
C20_NoWrapAround ==
    faults = 0 =>
        /\ ~Wrapped(fw.size)
        /\ \A i \in 1..Len(last.ev) :
              last.ev[i].e = "flushBuf" => ~Wrapped(last.ev[i].size)

\* C21 (as claimed): every successful rotation renames the retired file to
\* a name no file on disk had before the operation, and an operation leaves
\* every backup already on disk in place with the content it had, also when
\* two rotations read the same formatted time.
C21_BackupsNeverOverwritten ==
    [][/\ \A i \in 1..Len(last'.ev) :
             (last'.ev[i].e = "rotate" /\ last'.ev[i].ok)
             => last'.ev[i].name \notin DOMAIN fs
        /\ \A f \in DOMAIN fs :
             f[2] # NoPostfix => (f \in DOMAIN fs' /\ fs'[f] = fs[f])]_vars

\* C22 (as claimed): Close completes normally in every state of a writer
\* built by NewFileWriter, with a nil flushTicker and after an earlier Close
\* too: it does not panic, the attached file is closed when it is over, and
\* unless its rotation failed it has run flushBuf.
C22_CloseIsTotal ==
    last.op = "Close"
    => /\ last.err # "panic"
       /\ ~handles[fw.file].open
       /\ last.err = "nil" => HasEv(last.ev, "flushBuf")

====
